---- MODULE Spec2Model ----
(***************************************************************************)
(* A model of the noise-monitoring ingestion and health-inference core:    *)
(*   supabase_common.py        build_rows, upsert_rows, yesterday_sgt      *)
(*   supabase_backfill_all.py  main (the backfill walker)                  *)
(*   streamlit_app.py          get_sensor_health_single_date,              *)
(*                             get_sensor_health_date_range,               *)
(*                             fetch_all_data                              *)
(*                                                                         *)
(* Time.  An instant is an integer number of hours since                   *)
(* 2025-05-01T00:00Z; a calendar day is an integer number of days since    *)
(* 2025-05-01 (the walker's start_date).  Singapore time is UTC+8 the      *)
(* whole year.                                                             *)
(*                                                                         *)
(* Optional values.  Python's None is the empty set, a present value v is  *)
(* the set {v}.                                                            *)
(***************************************************************************)
EXTENDS Integers, Sequences, FiniteSets, TLC

VARIABLES
    \* ---- build_rows, one call (SpecBuild)
    loc,            \* the location passed to build_rows
    day,            \* the calendar day passed to build_rows
    resp,           \* what requests.get / raise_for_status / r.json() produce
    now,            \* datetime.now(timezone.utc)
    ret,            \* the outcome of the call: pending, returned rows, raised
    \* ---- the store and upsert_rows
    store,          \* the table: a set of rows
    rows,           \* upsert_rows' argument
    i,              \* upsert_rows' loop variable, the offset of the next chunk
    inserted,       \* upsert_rows' running count
    pc,             \* where the program is
    \* ---- what happened to the chunks (history of the writes)
    tried,          \* offsets of the chunks of this call submitted to the store
    okChunks,       \* offsets of the chunks of this call the store accepted
    written,        \* conflict key -> value of its most recent successful write
    replaced,       \* keys whose stored value a later write has changed
    \* ---- the dashboard's health section, for one location column
    df_all,         \* fetch_all_data's frame: date -> rows present, valid count
    win,            \* the sidebar's date range [start_date, end_date]
    health,         \* the health record computed for the location
    \* ---- supabase_backfill_all.py: main
    env,            \* the environment variables main reads
    upstream,       \* the sensor API's answer per (location index, day), once asked
    empty_chunks_to_stop,
    end_date,
    current_date,
    empty_streak,
    total_affected,
    days_processed,
    days_with_data,
    day_rows,
    loc_i,          \* index of the location the `for loc in LOCATIONS` loop is at
    \* ---- the history of the runs
    run,            \* 1 for the first run of the backfill, 2 for its rerun
    ticks,          \* hours the clock has advanced since the first start
    failed,         \* a chunk write of this run has failed
    drops,          \* (location index, day, instant) dropped as future in this run
    visited,        \* the days this run has entered the loop body for, in order
    built,          \* key and value of every row build_rows gave this run
    events,         \* what this run has done, in order: fetches, writes, days
    first,          \* what the first run left behind
    \* ---- streamlit_app.py: fetch_all_data, one call
    view,           \* the wide view: its rows, one per (Date, Time)
    args,           \* the call's start_date and end_date
    all_data,
    offset,
    frame,          \* the rows of the DataFrame the call returns
    raised          \* the call's try block has caught an exception

buildVars == <<loc, day, resp, ret>>
upsertVars == <<store, rows, i, inserted, tried, okChunks, written, replaced>>
healthVars == <<df_all, win, health>>
walkVars == <<env, upstream, empty_chunks_to_stop, end_date, current_date,
              empty_streak, total_affected, days_processed, days_with_data,
              day_rows, loc_i, run, ticks, failed, drops, visited, built, events,
              first>>
fetchVars == <<view, args, all_data, offset, frame, raised>>
vars == <<loc, day, resp, now, ret, store, rows, i, inserted, pc,
          tried, okChunks, written, replaced, df_all, win, health,
          env, upstream, empty_chunks_to_stop, end_date, current_date,
          empty_streak, total_affected, days_processed, days_with_data,
          day_rows, loc_i, run, ticks, failed, drops, visited, built, events,
          first, view, args, all_data, offset, frame, raised>>

-----------------------------------------------------------------------------
(* Bounds of the model *)

MaxItems == 2       \* longest JSON array the upstream returns in SpecBuild
MaxBatch == 5       \* longest batch handed to upsert_rows in SpecUpsert
MaxDates == 3       \* calendar days the dashboard's frame spans
MaxDay == 1         \* latest day, counted from start_date, that is yesterday
MaxStop == 2        \* largest EMPTY_CHUNKS_TO_STOP set in the environment
MaxTicks == 1       \* hours the clock advances during and between the runs
MaxYears == 1       \* largest BACKFILL_MAX_YEARS set in the environment
MaxTimes == 2       \* times of day the wide view has rows for
batch_size == 2     \* fetch_all_data's batch_size, scaled from 1000

\* upsert_rows' CHUNK, 1000 in the source, scaled down so that a batch of a
\* few rows is split into several chunks.
CHUNK == 2

-----------------------------------------------------------------------------
(* supabase_common.py: constants *)

SGT_OFFSET == 8                 \* zoneinfo "Asia/Singapore", hours east of UTC
HOURS_PER_DAY == 24
SKEW_HOURS == 1                 \* timedelta(hours=1)

\* The first two of the 13 registered locations.
LOCATIONS ==
    << [ID |-> "15490", Name |-> "Singapore Sports School"],
       [ID |-> "16034", Name |-> "BLK 120 Serangoon North Ave 1"] >>

None == {}
Some(v) == {v}

\* The Singapore calendar day an instant falls in.
SgtDate(t) == (t + SGT_OFFSET) \div HOURS_PER_DAY

\* The first instant (UTC) of a Singapore calendar day.
DayStart(d) == d * HOURS_PER_DAY - SGT_OFFSET

\* The day and the clock of the single calls of SpecBuild and SpecUpsert:
\* the day is fetched the day after, at 10:00 Singapore time.
BuildDay == 2
BuildNow == DayStart(BuildDay + 1) + 10

SeqsUpTo(S, n) == UNION { [1..k -> S] : k \in 0..n }

-----------------------------------------------------------------------------
(* The upstream's answers.                                                 *)
(*                                                                         *)
(* A fetch ends in an HTTP error status, a timeout or connection error, a  *)
(* body that is not JSON, or a JSON body.  A JSON body is                  *)
(*   falsy   null, false, 0, "", {} (and the empty list, below)            *)
(*   scalar  a non-zero number or true                                     *)
(*   string  a non-empty string                                            *)
(*   object  a non-empty object                                            *)
(*   list    an array of items                                             *)
(* An item is an observation object {dt, reading} or anything else.        *)
(* dt:      absent (no key, or null), empty (""), number (non-zero),       *)
(*          garbage (a string fromisoformat rejects), naive (an ISO string *)
(*          without offset), aware (an ISO string with Z or an offset).    *)
(* reading: absent (no key, or null), num, numstr (a string float()        *)
(*          accepts), garbage (any other string, a list, an object).       *)
(***************************************************************************)

Dt(k, t) == [k |-> k, t |-> t]
Rd(k, v) == [k |-> k, v |-> v]
Obs(dt, rd) == [t |-> "obs", dt |-> dt, reading |-> rd]
NonObj == [t |-> "nonobj", dt |-> Dt("absent", 0), reading |-> Rd("absent", 0)]

Body(t, items) == [t |-> t, items |-> items]
Json(body) == [kind |-> "json", body |-> body]
Failure(kind) == [kind |-> kind, body |-> Body("falsy", <<>>)]

Row(l, value, ts, created) ==
    [ location_id      |-> l.ID,
      location_name    |-> l.Name,
      reading_value    |-> value,
      reading_datetime |-> ts,
      created_at       |-> created ]

Returned(rs) == [state |-> "returned", rows |-> rs]
Raised == [state |-> "raised", rows |-> <<>>]
Pending == [state |-> "pending", rows |-> <<>>]

-----------------------------------------------------------------------------
(* supabase_common.py: build_rows *)

\* `if not dt_str: continue` (lines 87-89)
DtFalsy(dt) == dt.k \in {"absent", "empty"}

\* dt_str.replace(...) on a non-string, or fromisoformat on a string it
\* rejects: raised inside the try, caught at line 93.
DtRejected(dt) == dt.k \in {"number", "garbage"}

\* float(item.get("reading")) guarded by `is not None` and try/except
\* (lines 102-107).
ReadingValue(rd) ==
    IF rd.k = "absent" THEN None
    ELSE IF rd.k \in {"num", "numstr"} THEN Some(rd.v)
    ELSE None

\* `if ts_utc > now_plus_1h_utc: continue` (line 98)
IsFuture(ts, now_plus_1h) == ts > now_plus_1h

\* The loop of lines 84-116 over the remaining items.
RECURSIVE BuildLoop(_, _, _, _, _)
BuildLoop(l, items, clock, now_plus_1h, acc) ==
    IF items = <<>> THEN Returned(acc)
    ELSE LET item == Head(items)
             rest == Tail(items)
         IN  IF item.t # "obs"
                 \* item.get raises AttributeError at line 87; the handler's
                 \* own item.get('dt') at line 94 raises it again, uncaught.
                 THEN Raised
             ELSE IF DtFalsy(item.dt)
                 THEN BuildLoop(l, rest, clock, now_plus_1h, acc)
             ELSE IF DtRejected(item.dt)
                 THEN BuildLoop(l, rest, clock, now_plus_1h, acc)
             ELSE IF item.dt.k = "naive"
                 \* line 98 compares a naive with an aware datetime:
                 \* TypeError, outside every try.
                 THEN Raised
             ELSE IF IsFuture(item.dt.t, now_plus_1h)
                 THEN BuildLoop(l, rest, clock, now_plus_1h, acc)
             ELSE BuildLoop(l, rest, clock, now_plus_1h,
                      Append(acc, Row(l, ReadingValue(item.reading),
                                       item.dt.t, clock)))

\* build_rows(api_base, loc, day) given the fetch's outcome and the clock.
build_rows(l, d, r, clock) ==
    IF r.kind # "json" THEN Returned(<<>>)              \* lines 73-75
    ELSE IF r.body.t = "falsy" THEN Returned(<<>>)      \* lines 77-79
    ELSE IF r.body.t = "list" /\ r.body.items = <<>> THEN Returned(<<>>)
    ELSE IF r.body.t = "scalar" THEN Raised             \* line 84: not iterable
    ELSE IF r.body.t \in {"string", "object"} THEN Raised  \* iterates strings
    ELSE BuildLoop(l, r.body.items, clock, clock + SKEW_HOURS, <<>>)

-----------------------------------------------------------------------------
(* supabase_common.py: upsert_rows, and the store behind it *)

\* (mutant) the conflict target also names the value column
ConflictKeyWithValue(r) ==
    <<r.location_id, r.reading_datetime, r.reading_value>>

\* on_conflict="location_id,reading_datetime" (line 135)
ConflictKey(r) == <<r.location_id, r.reading_datetime>>

\* (mutant) a plain insert: rows are added whatever the table holds
MergeUpsertAppend(st, chunk) == st \cup { chunk[n] : n \in 1..Len(chunk) }

\* The store's merge-upsert of one request: row after row, a row whose
\* conflict key is already stored replaces the stored row, any other row is
\* added.
RECURSIVE MergeUpsert(_, _)
MergeUpsert(st, chunk) ==
    IF chunk = <<>> THEN st
    ELSE LET r == Head(chunk)
         IN  MergeUpsert({ x \in st : ConflictKey(x) # ConflictKey(r) } \cup {r},
                         Tail(chunk))

\* (mutant) the store answers with the newly inserted rows only
RespDataNewOnly(st, chunk) ==
    SelectSeq(chunk, LAMBDA r : \A x \in st : ConflictKey(x) # ConflictKey(r))

\* resp.data of an accepted request: the store answers with every row of the
\* request, inserted or overwritten (lines 138-139).
RespData(st, chunk) == chunk

\* rows[i:i + CHUNK] (line 131), i counted from 0
Chunk(rs, k) == SubSeq(rs, k + 1, IF k + CHUNK < Len(rs) THEN k + CHUNK ELSE Len(rs))

\* range(0, len(rows), CHUNK) (line 130)
ChunkOffsets(rs) == { k \in 0..Len(rs) : k < Len(rs) /\ k % CHUNK = 0 }

\* The natural key of a reading: (device, instant).
DeviceInstant(r) == <<r.location_id, r.reading_datetime>>

\* The history of successful writes, row after row.
RECURSIVE Record(_, _)
Record(w, chunk) ==
    IF chunk = <<>> THEN w
    ELSE LET r == Head(chunk)
             k == DeviceInstant(r)
         IN  Record([x \in DOMAIN w \cup {k} |->
                        IF x = k THEN r.reading_value ELSE w[x]],
                    Tail(chunk))

RECURSIVE Changed(_, _)
Changed(w, chunk) ==
    IF chunk = <<>> THEN {}
    ELSE LET r == Head(chunk)
             k == DeviceInstant(r)
         IN  (IF k \in DOMAIN w /\ w[k] # r.reading_value THEN {k} ELSE {})
             \cup Changed(Record(w, <<r>>), Tail(chunk))

NoWrites == [k \in {} |-> None]

UpsertIdle ==
    /\ store = {}
    /\ rows = <<>>
    /\ i = 0
    /\ inserted = 0
    /\ tried = {}
    /\ okChunks = {}
    /\ written = NoWrites
    /\ replaced = {}

\* upsert_rows(supabase, table, rs) up to its loop (lines 122-128)
UpsertBegin(rs) ==
    /\ rows' = rs
    /\ inserted' = 0
    /\ i' = 0
    /\ tried' = {}
    /\ okChunks' = {}
    /\ pc' = IF rs = <<>> THEN "returned" ELSE "chunks"
    /\ UNCHANGED <<store, written, replaced>>

\* The loop's step after a chunk: the next offset, or `return inserted`.
AfterChunk ==
    /\ i' = i + CHUNK
    /\ pc' = IF i + CHUNK < Len(rows) THEN "chunks" ELSE "returned"

\* One chunk the store accepts (lines 131-139).
UpsertChunkOk ==
    /\ pc = "chunks"
    /\ LET chunk == Chunk(rows, i)
       IN  /\ store' = MergeUpsert(store, chunk)
           /\ inserted' = inserted + Len(RespData(store, chunk))
           /\ written' = Record(written, chunk)
           /\ replaced' = replaced \cup Changed(written, chunk)
    /\ tried' = tried \cup {i}
    /\ okChunks' = okChunks \cup {i}
    /\ AfterChunk
    /\ UNCHANGED rows

\* (mutant) a failed chunk ends the loop: `break` for `continue`
UpsertChunkFailBreak ==
    /\ pc = "chunks"
    /\ tried' = tried \cup {i}
    /\ pc' = "returned"
    /\ UNCHANGED <<store, rows, i, inserted, okChunks, written, replaced>>

\* One chunk whose request raises (lines 141-144): logged, the loop goes on.
UpsertChunkFail ==
    /\ pc = "chunks"
    /\ tried' = tried \cup {i}
    /\ AfterChunk
    /\ UNCHANGED <<store, rows, inserted, okChunks, written, replaced>>

-----------------------------------------------------------------------------
(* supabase_backfill_all.py: main, the backfill walker *)

start_date == 0                 \* date(2025, 5, 1)
DEFAULT_EMPTY_CHUNKS == 7       \* os.getenv("EMPTY_CHUNKS_TO_STOP", "7")

\* (mutant) yesterday by the UTC calendar
yesterday_utc(clock) == (clock \div HOURS_PER_DAY) - 1

\* yesterday_sgt(): datetime.now(SGT).date() - timedelta(days=1)
yesterday_sgt(clock) == SgtDate(clock) - 1

Max(a, b) == IF a >= b THEN a ELSE b
Min(a, b) == IF a <= b THEN a ELSE b

\* max(1, int(os.getenv("EMPTY_CHUNKS_TO_STOP", "7"))) (line 39)
StopThreshold(e) ==
    IF e.EMPTY_CHUNKS_TO_STOP = None THEN Max(1, DEFAULT_EMPTY_CHUNKS)
    ELSE Max(1, CHOOSE n \in e.EMPTY_CHUNKS_TO_STOP : TRUE)

\* (mutant) one of the two connection parameters is enough
ConfigPresentEither(e) == e.SUPABASE_URL \/ e.SUPABASE_ANON_KEY

\* lines 42-48: os.environ[...] raises KeyError when either is not set
ConfigPresent(e) == e.SUPABASE_URL /\ e.SUPABASE_ANON_KEY

\* (mutant) a day without affected rows leaves the streak as it is
StreakAfterFrozen(streak, affected) == IF affected = 0 THEN streak ELSE 0

\* (mutant) every day counts as a day with data
WithDataAlways(n, affected) == n + 1

\* lines 101-106
StreakAfter(streak, affected) == IF affected = 0 THEN streak + 1 ELSE 0
WithDataAfter(n, affected) == IF affected = 0 THEN n ELSE n + 1

\* (mutant) the total is assigned the day's count
TotalAfterAssign(total, affected) == affected

\* `total_affected += affected` (line 99)
TotalAfter(total, affected) == total + affected

\* (mutant) one day without rows stops the run
ShouldStopOnFirstEmpty(streak, threshold) == streak >= 1

\* (mutant) the stop test is strict
ShouldStopStrict(streak, threshold) == streak > threshold

\* `if empty_streak >= empty_chunks_to_stop: break` (lines 110-112)
ShouldStop(streak, threshold) == streak >= threshold

\* The instant the upstream wrongly stamps some observations with: two hours
\* after the latest clock of a first start.
SkewInstant == DayStart(MaxDay + 1) + 10 + SKEW_HOURS + 1

\* What the upstream may answer for a location and a day: nothing, an error
\* object, one observation, or two of the day and a wrongly stamped one.
WalkResponses(d) ==
    { Json(Body("list", <<>>)),
      Json(Body("object", <<>>)),
      Json(Body("list", << Obs(Dt("aware", DayStart(d)), Rd("num", 50)) >>)),
      Json(Body("list", << Obs(Dt("aware", DayStart(d)), Rd("num", 50)),
                           Obs(Dt("aware", DayStart(d) + 1), Rd("num", 60)),
                           Obs(Dt("aware", SkewInstant), Rd("num", 70)) >>)) }

\* The instants of a response the clock-skew guard rejects at `clock`.
FutureInstants(r, clock) ==
    IF r.kind = "json" /\ r.body.t = "list"
        THEN { r.body.items[n].dt.t : n \in
                 { m \in 1..Len(r.body.items) :
                     /\ r.body.items[m].t = "obs"
                     /\ r.body.items[m].dt.k = "aware"
                     /\ IsFuture(r.body.items[m].dt.t, clock + SKEW_HOURS) } }
    ELSE {}

\* Key and value of the rows of a batch.
KeyValuesOf(rs) ==
    { <<DeviceInstant(rs[n]), rs[n].reading_value>> : n \in 1..Len(rs) }

\* What the run does, as it is recorded in `events`: build_rows called for
\* the location of index l and the day d (line 81); upsert_rows called for
\* the day d with a batch of n rows (line 98); the day d counted with the
\* number upsert_rows returned (lines 99-107).
Fetched(l, d) == [e |-> "fetch", d |-> d, x |-> l]

Wrote(d, n) == [e |-> "write", d |-> d, x |-> n]

Decided(d, affected) == [e |-> "day", d |-> d, x |-> affected]

NoFirst ==
    [ store |-> {}, total_affected |-> 0, days_processed |-> 0, end_date |-> 0,
      failed |-> FALSE, drops |-> {}, interrupted |-> FALSE ]

WalkIdle ==
    /\ env = [EMPTY_CHUNKS_TO_STOP |-> None, BACKFILL_MAX_YEARS |-> None,
              SUPABASE_URL |-> TRUE, SUPABASE_ANON_KEY |-> TRUE]
    /\ upstream = [k \in {} |-> Failure("timeout")]
    /\ empty_chunks_to_stop = 0
    /\ end_date = 0
    /\ current_date = 0
    /\ empty_streak = 0
    /\ total_affected = 0
    /\ days_processed = 0
    /\ days_with_data = 0
    /\ day_rows = <<>>
    /\ loc_i = 0
    /\ run = 1
    /\ ticks = 0
    /\ failed = FALSE
    /\ drops = {}
    /\ visited = <<>>
    /\ built = {}
    /\ events = <<>>
    /\ first = NoFirst

\* (mutant) the walk ends one day before the earliest date
InRangeStrict(cd) == cd > start_date

\* `current_date >= start_date` (line 72)
InRange(cd) == cd >= start_date

\* `while current_date >= start_date:` evaluated for the date cd, and the
\* head of the body (lines 72-74); after the loop, the summary (128-137).
LoopHead(cd) ==
    IF InRange(cd)
        THEN /\ pc' = "fetch"
             /\ days_processed' = days_processed + 1
             /\ day_rows' = <<>>
             /\ loc_i' = 1
             /\ visited' = Append(visited, cd)
        ELSE /\ pc' = "done"
             /\ UNCHANGED <<days_processed, day_rows, loc_i, visited>>

\* main up to the loop (lines 33-72).
Start ==
    /\ pc = "init"
    /\ empty_chunks_to_stop' = StopThreshold(env)
    /\ IF ~ConfigPresent(env)
          THEN /\ pc' = "config_error"
               /\ UNCHANGED <<end_date, current_date, empty_streak, total_affected,
                              days_processed, days_with_data, day_rows, loc_i,
                              visited>>
          ELSE /\ end_date' = yesterday_sgt(now)
               /\ current_date' = yesterday_sgt(now)
               /\ empty_streak' = 0
               /\ total_affected' = 0
               /\ days_with_data' = 0
               /\ days_processed' = IF InRange(yesterday_sgt(now)) THEN 1 ELSE 0
               /\ visited' = IF InRange(yesterday_sgt(now))
                                THEN << yesterday_sgt(now) >> ELSE <<>>
               /\ day_rows' = <<>>
               /\ loc_i' = 1
               /\ pc' = IF InRange(yesterday_sgt(now)) THEN "fetch" ELSE "done"
    /\ failed' = FALSE
    /\ drops' = {}
    /\ built' = {}
    /\ events' = <<>>
    /\ UNCHANGED <<env, upstream, run, ticks, first, now>>
    /\ UNCHANGED buildVars
    /\ UNCHANGED upsertVars
    /\ UNCHANGED healthVars
    /\ UNCHANGED fetchVars

\* (mutant) a location whose fetch raises empties the day's batch
ExtendOrReset(acc, loc_rows) ==
    IF loc_rows.state = "raised" THEN <<>> ELSE acc \o loc_rows.rows

\* `day_rows.extend(loc_rows)` (line 82), which the `except` of a raising
\* build_rows skips (lines 91-94).
Extend(acc, loc_rows) ==
    IF loc_rows.state = "raised" THEN acc ELSE acc \o loc_rows.rows

\* One turn of `for loc in LOCATIONS` (lines 79-94): build_rows for the
\* location, its rows appended; an exception is logged and the loop goes on.
FetchLocation ==
    /\ pc = "fetch"
    /\ loc_i <= Len(LOCATIONS)
    /\ \E r \in WalkResponses(current_date) :
          /\ <<loc_i, current_date>> \in DOMAIN upstream
                 => r = upstream[<<loc_i, current_date>>]
          /\ upstream' = [k \in DOMAIN upstream \cup {<<loc_i, current_date>>} |->
                             IF k = <<loc_i, current_date>> THEN r ELSE upstream[k]]
          /\ LET loc_rows == build_rows(LOCATIONS[loc_i], current_date, r, now)
             IN  /\ day_rows' = Extend(day_rows, loc_rows)
                 /\ built' = built \cup KeyValuesOf(loc_rows.rows)
                 /\ drops' = IF loc_rows.state = "returned"
                               THEN drops \cup
                                    { <<loc_i, current_date, t>> :
                                        t \in FutureInstants(r, now) }
                               ELSE drops
    /\ loc_i' = loc_i + 1
    /\ events' = Append(events, Fetched(loc_i, current_date))
    /\ UNCHANGED <<env, empty_chunks_to_stop, end_date, current_date, empty_streak,
                   total_affected, days_processed, days_with_data, run, ticks,
                   failed, visited, first, now, pc>>
    /\ UNCHANGED buildVars
    /\ UNCHANGED upsertVars
    /\ UNCHANGED healthVars
    /\ UNCHANGED fetchVars

\* `affected = upsert_rows(supabase, table, day_rows)` is entered (line 98).
CallUpsert ==
    /\ pc = "fetch"
    /\ loc_i > Len(LOCATIONS)
    /\ UpsertBegin(day_rows)
    /\ events' = Append(events, Wrote(current_date, Len(day_rows)))
    /\ UNCHANGED <<env, upstream, empty_chunks_to_stop, end_date, current_date,
                   empty_streak, total_affected, days_processed, days_with_data,
                   day_rows, loc_i, run, ticks, failed, drops, visited, built,
                   first>>
    /\ UNCHANGED now
    /\ UNCHANGED buildVars
    /\ UNCHANGED healthVars
    /\ UNCHANGED fetchVars

WalkChunkOk ==
    /\ UpsertChunkOk
    /\ UNCHANGED walkVars
    /\ UNCHANGED now
    /\ UNCHANGED buildVars
    /\ UNCHANGED healthVars
    /\ UNCHANGED fetchVars

WalkChunkFail ==
    /\ UpsertChunkFail
    /\ failed' = TRUE
    /\ UNCHANGED <<env, upstream, empty_chunks_to_stop, end_date, current_date,
                   empty_streak, total_affected, days_processed, days_with_data,
                   day_rows, loc_i, run, ticks, drops, visited, built, events,
                   first>>
    /\ UNCHANGED now
    /\ UNCHANGED buildVars
    /\ UNCHANGED healthVars
    /\ UNCHANGED fetchVars

\* upsert_rows has returned: the day's bookkeeping, the stop test, the step
\* to the previous day and the loop test (lines 98-118, 72-74).
EndOfDay ==
    /\ pc = "returned"
    /\ LET affected == inserted
           streak == StreakAfter(empty_streak, affected)
       IN  /\ total_affected' = TotalAfter(total_affected, affected)
           /\ events' = Append(events, Decided(current_date, affected))
           /\ empty_streak' = streak
           /\ days_with_data' = WithDataAfter(days_with_data, affected)
           /\ IF ShouldStop(streak, empty_chunks_to_stop)
                 THEN /\ pc' = "done"
                      /\ UNCHANGED <<current_date, days_processed, day_rows, loc_i,
                                     visited>>
                 ELSE /\ current_date' = current_date - 1
                      /\ LoopHead(current_date - 1)
    /\ UNCHANGED <<env, upstream, empty_chunks_to_stop, end_date, run, ticks,
                   failed, drops, built, first, now>>
    /\ UNCHANGED upsertVars
    /\ UNCHANGED buildVars
    /\ UNCHANGED healthVars
    /\ UNCHANGED fetchVars

\* The backfill is run again, on the same store and environment.
Rerun ==
    /\ pc = "done"
    /\ run = 1
    /\ run' = 2
    /\ first' = [ store |-> store, total_affected |-> total_affected,
                  days_processed |-> days_processed, end_date |-> end_date,
                  failed |-> failed, drops |-> drops, interrupted |-> FALSE ]
    /\ pc' = "init"
    /\ UNCHANGED <<env, upstream, empty_chunks_to_stop, end_date, current_date,
                   empty_streak, total_affected, days_processed, days_with_data,
                   day_rows, loc_i, ticks, failed, drops, visited, built, events,
                   now>>
    /\ UNCHANGED upsertVars
    /\ UNCHANGED buildVars
    /\ UNCHANGED healthVars
    /\ UNCHANGED fetchVars

\* The process is killed in the middle of a run and the backfill is started
\* again: what the store holds stays, what the process held is lost.
Interrupt ==
    /\ pc \in {"fetch", "chunks", "returned"}
    /\ run = 1
    /\ run' = 2
    /\ first' = [ store |-> store, total_affected |-> total_affected,
                  days_processed |-> days_processed, end_date |-> end_date,
                  failed |-> failed, drops |-> drops, interrupted |-> TRUE ]
    /\ pc' = "init"
    /\ rows' = <<>>
    /\ i' = 0
    /\ inserted' = 0
    /\ tried' = {}
    /\ okChunks' = {}
    /\ UNCHANGED <<store, written, replaced>>
    /\ UNCHANGED <<env, upstream, empty_chunks_to_stop, end_date, current_date,
                   empty_streak, total_affected, days_processed, days_with_data,
                   day_rows, loc_i, ticks, failed, drops, visited, built, events,
                   now>>
    /\ UNCHANGED buildVars
    /\ UNCHANGED healthVars
    /\ UNCHANGED fetchVars

\* An hour passes.
Tick ==
    /\ pc \in {"init", "fetch", "chunks", "returned", "done"}
    /\ ticks < MaxTicks
    /\ ticks' = ticks + 1
    /\ now' = now + 1
    /\ UNCHANGED <<env, upstream, empty_chunks_to_stop, end_date, current_date,
                   empty_streak, total_affected, days_processed, days_with_data,
                   day_rows, loc_i, run, failed, drops, visited, built, events,
                   first, pc>>
    /\ UNCHANGED upsertVars
    /\ UNCHANGED buildVars
    /\ UNCHANGED healthVars
    /\ UNCHANGED fetchVars


-----------------------------------------------------------------------------
(* streamlit_app.py: fetch_all_data *)

\* A row of the wide view is known by its <<Date, Time>>: the view groups the
\* readings by date and time of day.
RowDate(r) == r[1]
RowTime(r) == r[2]

\* .gte("Date", start_date) and .lte("Date", end_date), each applied when the
\* argument is given (lines 193-196)
Matches(r, a) ==
    /\ a.start_date # None => \A d \in a.start_date : RowDate(r) >= d
    /\ a.end_date # None => \A d \in a.end_date : RowDate(r) <= d

\* .order("Date", desc=True).order("Time", desc=True) (line 198)
Before(r, q) ==
    \/ RowDate(r) > RowDate(q)
    \/ RowDate(r) = RowDate(q) /\ RowTime(r) > RowTime(q)

\* The rows of S in that order: the n-th row has n - 1 rows before it.
Ordered(S) ==
    [n \in 1..Cardinality(S) |->
        CHOOSE r \in S : Cardinality({ q \in S : Before(q, r) }) = n - 1]

\* .range(offset, offset + batch_size - 1), both ends inclusive (line 198)
RangeOf(rs, from, to) ==
    IF from + 1 > Len(rs) THEN <<>>
    ELSE SubSeq(rs, from + 1, IF to + 1 < Len(rs) THEN to + 1 ELSE Len(rs))

\* query.execute() on the view v: resp.data (lines 191-201)
Execute(v, a, off) ==
    RangeOf(Ordered({ r \in v : Matches(r, a) }), off, off + batch_size - 1)

\* (mutant) a full batch ends the loop as well
LastBatchOrFull(batch) == Len(batch) <= batch_size

\* `if len(batch) < batch_size: break` (lines 208-209)
LastBatch(batch) == Len(batch) < batch_size

FetchIdle ==
    /\ view = {}
    /\ args = [start_date |-> None, end_date |-> None]
    /\ all_data = <<>>
    /\ offset = 0
    /\ frame = <<>>
    /\ raised = FALSE

\* One turn of `while True` in which the query succeeds (lines 190-213).
FetchBatch ==
    /\ pc = "paging"
    /\ LET batch == Execute(view, args, offset)
       IN  IF batch = <<>>
               THEN /\ frame' = all_data
                    /\ pc' = "fetched"
                    /\ UNCHANGED <<all_data, offset>>
           ELSE IF LastBatch(batch)
               THEN /\ all_data' = all_data \o batch
                    /\ frame' = all_data \o batch
                    /\ pc' = "fetched"
                    /\ UNCHANGED offset
           ELSE /\ all_data' = all_data \o batch
                /\ offset' = offset + batch_size
                /\ UNCHANGED <<frame, pc>>
    /\ UNCHANGED <<view, args, raised, now>>
    /\ UNCHANGED buildVars
    /\ UNCHANGED upsertVars
    /\ UNCHANGED walkVars
    /\ UNCHANGED healthVars

\* The query of a turn raises: the error is shown and an empty frame is
\* returned (lines 215-217).
FetchRaise ==
    /\ pc = "paging"
    /\ raised' = TRUE
    /\ frame' = <<>>
    /\ pc' = "fetched"
    /\ UNCHANGED <<view, args, all_data, offset, now>>
    /\ UNCHANGED buildVars
    /\ UNCHANGED upsertVars
    /\ UNCHANGED walkVars
    /\ UNCHANGED healthVars

-----------------------------------------------------------------------------
(* streamlit_app.py: the health classifier                                 *)
(*                                                                         *)
(* A frame is seen through one location column: for every date, whether    *)
(* the frame has rows of that date and how many of them hold a value in    *)
(* the column (notna).  Percentages are exact fractions; a comparison      *)
(* `x / y * 100 >= T * 100` of the source is evaluated as                  *)
(* x * 100 >= (100 T) * y, which agrees with the source's floating-point   *)
(* evaluation for every count up to READINGS_PER_DAY * 39.  Thresholds are *)
(* in hundredths.                                                          *)
(***************************************************************************)

READINGS_PER_DAY == 1440
OFFLINE_THRESHOLD == 30
DEGRADED_THRESHOLD == 70
ONLINE_OVERALL_THRESHOLD == 70
DEGRADED_OVERALL_THRESHOLD == 40

NoRows == [present |-> FALSE, valid |-> 0]
DayRows(c) == [present |-> TRUE, valid |-> c]

\* x / y * 100, kept as a fraction (0 when y = 0)
Pct(x, y) == [num |-> x * 100, den |-> y]

\* pct >= T * 100, pct < T * 100
PctGe(pct, T) == IF pct.den > 0 THEN pct.num >= T * pct.den ELSE 0 >= T
PctLt(pct, T) == ~PctGe(pct, T)

\* df = df[(df["Date"] >= start_date) & (df["Date"] <= end_date)]
\* (filter_frame, lines 265-266)
FilterFrame(df, date_from, date_to) ==
    [d \in DOMAIN df |-> IF d >= date_from /\ d <= date_to THEN df[d] ELSE NoRows]

\* DataFrame.empty
Empty(df) == \A d \in DOMAIN df : ~df[d].present

\* df[df['Date'] == d]: empty, or the rows of that date
DayDf(df, d) == IF d \in DOMAIN df THEN df[d] ELSE NoRows

\* (mutant) the single-day comparisons are strict
SingleStatusStrict(completeness) ==
    IF completeness.num > DEGRADED_THRESHOLD * completeness.den THEN "ONLINE"
    ELSE IF completeness.num > OFFLINE_THRESHOLD * completeness.den THEN "DEGRADED"
    ELSE "OFFLINE"

\* lines 89-94
SingleStatus(completeness) ==
    IF PctGe(completeness, DEGRADED_THRESHOLD) THEN "ONLINE"
    ELSE IF PctGe(completeness, OFFLINE_THRESHOLD) THEN "DEGRADED"
    ELSE "OFFLINE"

\* get_sensor_health_single_date(df, target_date, [column]) for the column
get_sensor_health_single_date(df, target_date) ==
    LET day_df == DayDf(df, target_date)
    IN  IF ~day_df.present
            THEN [reading_count |-> 0, completeness |-> Pct(0, READINGS_PER_DAY),
                  status |-> "OFFLINE"]
        ELSE LET valid_count == day_df.valid
                 completeness == Pct(valid_count, READINGS_PER_DAY)
             IN  [reading_count |-> valid_count,
                  completeness  |-> completeness,
                  status        |-> SingleStatus(completeness)]

\* (mutant) the status follows the share of online days
OverallStatusByUptime(completeness_pct, uptime_pct) ==
    IF PctGe(uptime_pct, ONLINE_OVERALL_THRESHOLD) THEN "ONLINE"
    ELSE IF PctGe(uptime_pct, DEGRADED_OVERALL_THRESHOLD) THEN "DEGRADED"
    ELSE "OFFLINE"

\* lines 143-149
OverallStatus(completeness_pct, uptime_pct) ==
    IF PctGe(completeness_pct, ONLINE_OVERALL_THRESHOLD) THEN "ONLINE"
    ELSE IF PctGe(completeness_pct, DEGRADED_OVERALL_THRESHOLD) THEN "DEGRADED"
    ELSE "OFFLINE"

\* pd.date_range(start_date, end_date, freq='D')
DateRange(date_from, date_to) ==
    [k \in 1..(date_to - date_from + 1) |-> date_from + k - 1]

RECURSIVE SumValid(_, _)
SumValid(df, dates) ==
    IF dates = {} THEN 0
    ELSE LET d == CHOOSE x \in dates : TRUE
         IN  df[d].valid + SumValid(df, dates \ {d})

\* (mutant) only a day that has rows can be offline
IsOfflineDayPresentOnly(df, d) == DayDf(df, d).present /\ DayDf(df, d).valid = 0

\* lines 119-121, 127-128: the day has no rows, or none with a value
IsOfflineDay(df, d) == ~DayDf(df, d).present \/ DayDf(df, d).valid = 0

\* (mutant) a day is listed as degraded whenever its count is low
IsDegradedDayAnyLow(df, d) ==
    PctLt(Pct(DayDf(df, d).valid, READINGS_PER_DAY), OFFLINE_THRESHOLD)

\* lines 129-136: the `else` of the zero-count test, then
\* `if completeness < OFFLINE_THRESHOLD * 100`
IsDegradedDay(df, d) ==
    /\ ~IsOfflineDay(df, d)
    /\ PctLt(Pct(DayDf(df, d).valid, READINGS_PER_DAY), OFFLINE_THRESHOLD)

\* get_sensor_health_date_range(df, start_date, end_date, [column])
get_sensor_health_date_range(df, date_from, date_to) ==
    LET total_days == date_to - date_from + 1
        dates == DateRange(date_from, date_to)
        IsOffline(d) == IsOfflineDay(df, d)
        IsDegraded(d) == IsDegradedDay(df, d)
        online_days == Cardinality({ k \in DOMAIN dates : ~IsOffline(dates[k]) })
        total_readings == SumValid(df, DOMAIN df)               \* line 138
        expected_readings == READINGS_PER_DAY * total_days      \* line 139
        uptime_pct == Pct(online_days, total_days)
        completeness_pct == Pct(total_readings, expected_readings)
    IN  [ online_days       |-> online_days,
          total_days        |-> total_days,
          uptime_pct        |-> uptime_pct,
          completeness_pct  |-> completeness_pct,
          total_readings    |-> total_readings,
          expected_readings |-> expected_readings,
          status            |-> OverallStatus(completeness_pct, uptime_pct),
          offline_dates     |-> SelectSeq(dates, IsOffline),
          degraded_dates    |-> SelectSeq(dates, IsDegraded) ]

NoHealth == [mode |-> "none"]
Single(h) == [mode |-> "single", rec |-> h]
Range(h) == [mode |-> "range", rec |-> h]

HealthIdle ==
    /\ df_all = [d \in {} |-> NoRows]
    /\ win = [start_date |-> 0, end_date |-> 0]
    /\ health = NoHealth

\* main, lines 664-665, 683, 757-768: the frame is cut to the date range and,
\* unless nothing is left, the single-date view is computed when the range
\* is one day ...
ShowSingleDate ==
    /\ pc = "dashboard"
    /\ health = NoHealth
    /\ win.start_date = win.end_date
    /\ LET filtered == FilterFrame(df_all, win.start_date, win.end_date)
       IN  /\ ~Empty(filtered)
           /\ health' = Single(get_sensor_health_single_date(filtered, win.start_date))
    /\ UNCHANGED <<df_all, win, pc, now>>
    /\ UNCHANGED buildVars
    /\ UNCHANGED upsertVars
    /\ UNCHANGED walkVars
    /\ UNCHANGED fetchVars

\* ... and the date-range view otherwise (line 847).
ShowDateRange ==
    /\ pc = "dashboard"
    /\ health = NoHealth
    /\ win.start_date # win.end_date
    /\ LET filtered == FilterFrame(df_all, win.start_date, win.end_date)
       IN  /\ ~Empty(filtered)
           /\ health' = Range(get_sensor_health_date_range(filtered, win.start_date,
                                                           win.end_date))
    /\ UNCHANGED <<df_all, win, pc, now>>
    /\ UNCHANGED buildVars
    /\ UNCHANGED upsertVars
    /\ UNCHANGED walkVars
    /\ UNCHANGED fetchVars

OtherIdle ==
    /\ loc = LOCATIONS[1]
    /\ day = BuildDay
    /\ resp = Failure("timeout")
    /\ ret = Pending
    /\ now = BuildNow
    /\ UpsertIdle
    /\ WalkIdle
    /\ FetchIdle

-----------------------------------------------------------------------------
(* Spec: the backfill, a first run and a rerun against an upstream whose
   answers, once given, stay the same *)

EnvsWith(years) ==
    { [EMPTY_CHUNKS_TO_STOP |-> n, BACKFILL_MAX_YEARS |-> y,
       SUPABASE_URL |-> u, SUPABASE_ANON_KEY |-> k] :
        n \in {None} \cup { Some(m) : m \in 0..MaxStop },
        y \in years, u \in BOOLEAN, k \in BOOLEAN }

Envs == EnvsWith({None})

Init ==
    /\ pc = "init"
    /\ env \in Envs
    /\ now \in { DayStart(y + 1) + 10 : y \in 0..MaxDay }
    /\ upstream = [k \in {} |-> Failure("timeout")]
    /\ empty_chunks_to_stop = 0
    /\ end_date = 0
    /\ current_date = 0
    /\ empty_streak = 0
    /\ total_affected = 0
    /\ days_processed = 0
    /\ days_with_data = 0
    /\ day_rows = <<>>
    /\ loc_i = 0
    /\ run = 1
    /\ ticks = 0
    /\ failed = FALSE
    /\ drops = {}
    /\ visited = <<>>
    /\ built = {}
    /\ events = <<>>
    /\ first = NoFirst
    /\ loc = LOCATIONS[1]
    /\ day = BuildDay
    /\ resp = Failure("timeout")
    /\ ret = Pending
    /\ UpsertIdle
    /\ HealthIdle
    /\ FetchIdle

Next ==
    \/ Start
    \/ FetchLocation
    \/ CallUpsert
    \/ WalkChunkOk
    \/ WalkChunkFail
    \/ EndOfDay
    \/ Rerun
    \/ Tick

Spec == Init /\ [][Next]_vars

-----------------------------------------------------------------------------
(* SpecWalk: one run of the backfill, under every environment; a run that
   is scheduled goes on to its end *)

\* The hours of the Singapore day at which a run starts: 02:00, when the
\* date in UTC is still the day before, and 10:00.
WalkHours == {2, 10}

EnvsWalk == EnvsWith({None} \cup { Some(m) : m \in 0..MaxYears })

InitWalk ==
    /\ pc = "init"
    /\ env \in EnvsWalk
    /\ now \in { DayStart(y + 1) + h : y \in 0..MaxDay, h \in WalkHours }
    /\ upstream = [k \in {} |-> Failure("timeout")]
    /\ empty_chunks_to_stop = 0
    /\ end_date = 0
    /\ current_date = 0
    /\ empty_streak = 0
    /\ total_affected = 0
    /\ days_processed = 0
    /\ days_with_data = 0
    /\ day_rows = <<>>
    /\ loc_i = 0
    /\ run = 1
    /\ ticks = 0
    /\ failed = FALSE
    /\ drops = {}
    /\ visited = <<>>
    /\ built = {}
    /\ events = <<>>
    /\ first = NoFirst
    /\ loc = LOCATIONS[1]
    /\ day = BuildDay
    /\ resp = Failure("timeout")
    /\ ret = Pending
    /\ UpsertIdle
    /\ HealthIdle
    /\ FetchIdle

NextWalk ==
    \/ Start
    \/ FetchLocation
    \/ CallUpsert
    \/ WalkChunkOk
    \/ WalkChunkFail
    \/ EndOfDay

SpecWalk == InitWalk /\ [][NextWalk]_vars /\ WF_vars(NextWalk)

-----------------------------------------------------------------------------
(* SpecResume: a run that is interrupted anywhere, and the rerun *)

NextResume ==
    \/ Start
    \/ FetchLocation
    \/ CallUpsert
    \/ WalkChunkOk
    \/ WalkChunkFail
    \/ EndOfDay
    \/ Interrupt
    \/ Tick

SpecResume == Init /\ [][NextResume]_vars

-----------------------------------------------------------------------------
(* SpecSingle: the single-date view on every count of one day *)

InitSingle ==
    /\ pc = "dashboard"
    /\ win = [start_date |-> 1, end_date |-> 1]
    /\ \E c \in 0..READINGS_PER_DAY, before \in {NoRows, DayRows(READINGS_PER_DAY)} :
          df_all = [d \in 0..1 |-> IF d = 1 THEN DayRows(c) ELSE before]
    /\ health = NoHealth
    /\ OtherIdle

NextSingle == ShowSingleDate

SpecSingle == InitSingle /\ [][NextSingle]_vars

-----------------------------------------------------------------------------
(* SpecHealth: both views on frames of a few days *)

\* Valid counts of one day: none, one, and both sides of every threshold.
DayCounts == {0, 1, 431, 432, 575, 576, 577, 1007, 1008, 1440}

DayShapes == {NoRows} \cup { DayRows(c) : c \in DayCounts }

Dates == 0..(MaxDates - 1)

InitHealth ==
    /\ pc = "dashboard"
    /\ df_all \in [Dates -> DayShapes]
    /\ \E s \in Dates, e \in Dates :
          /\ s <= e
          /\ win = [start_date |-> s, end_date |-> e]
    /\ health = NoHealth
    /\ OtherIdle

NextHealth == ShowSingleDate \/ ShowDateRange

SpecHealth == InitHealth /\ [][NextHealth]_vars

-----------------------------------------------------------------------------
(* SpecFetch: one call of fetch_all_data on a view that does not change *)

FetchDates == 0..(MaxDates - 1)
FetchTimes == 0..(MaxTimes - 1)
FetchArgs == {None} \cup { Some(d) : d \in FetchDates }

InitFetch ==
    /\ pc = "dashboard"
    /\ view \in SUBSET (FetchDates \X FetchTimes)
    /\ args = [start_date |-> None, end_date |-> None]
    /\ all_data = <<>>
    /\ offset = 0
    /\ frame = <<>>
    /\ raised = FALSE
    /\ loc = LOCATIONS[1]
    /\ day = BuildDay
    /\ resp = Failure("timeout")
    /\ ret = Pending
    /\ now = BuildNow
    /\ UpsertIdle
    /\ WalkIdle
    /\ df_all = [d \in {} |-> NoRows]
    /\ win = [start_date |-> 0, end_date |-> 0]
    /\ health = NoHealth

\* fetch_all_data(start_date, end_date) is called (lines 183-187).
CallFetchAll ==
    /\ pc = "dashboard"
    /\ args' \in [start_date : FetchArgs, end_date : FetchArgs]
    /\ all_data' = <<>>
    /\ offset' = 0
    /\ pc' = "paging"
    /\ UNCHANGED <<view, frame, raised, now>>
    /\ UNCHANGED buildVars
    /\ UNCHANGED upsertVars
    /\ UNCHANGED walkVars
    /\ UNCHANGED healthVars

NextFetch == CallFetchAll \/ FetchBatch \/ FetchRaise

SpecFetch == InitFetch /\ [][NextFetch]_vars /\ WF_vars(NextFetch)

-----------------------------------------------------------------------------
(* SpecUpsert: any sequence of calls of upsert_rows on one store *)

UpsertInstant == DayStart(BuildDay)

UpsertRowPool ==
    { Row(LOCATIONS[1], Some(50), UpsertInstant, BuildNow),
      Row(LOCATIONS[1], Some(60), UpsertInstant, BuildNow),
      Row(LOCATIONS[2], Some(50), UpsertInstant, BuildNow) }

InitUpsert ==
    /\ loc = LOCATIONS[1]
    /\ day = BuildDay
    /\ resp = Failure("timeout")
    /\ ret = Pending
    /\ now = BuildNow
    /\ pc = "idle"
    /\ UpsertIdle
    /\ HealthIdle
    /\ FetchIdle
    /\ WalkIdle

CallUpsertRows ==
    /\ pc = "idle"
    /\ \E rs \in SeqsUpTo(UpsertRowPool, MaxBatch) : UpsertBegin(rs)
    /\ UNCHANGED <<now>>
    /\ UNCHANGED buildVars
    /\ UNCHANGED healthVars
    /\ UNCHANGED fetchVars
    /\ UNCHANGED walkVars

\* The call is over: its locals are gone, the store stays.
UpsertReturn ==
    /\ pc = "returned"
    /\ pc' = "idle"
    /\ rows' = <<>>
    /\ i' = 0
    /\ inserted' = 0
    /\ tried' = {}
    /\ okChunks' = {}
    /\ UNCHANGED <<store, written, replaced, now>>
    /\ UNCHANGED buildVars
    /\ UNCHANGED healthVars
    /\ UNCHANGED fetchVars
    /\ UNCHANGED walkVars

UpsertStep ==
    /\ UpsertChunkOk \/ UpsertChunkFail
    /\ UNCHANGED <<now>>
    /\ UNCHANGED buildVars
    /\ UNCHANGED healthVars
    /\ UNCHANGED fetchVars
    /\ UNCHANGED walkVars

NextUpsert == CallUpsertRows \/ UpsertStep \/ UpsertReturn

SpecUpsert == InitUpsert /\ [][NextUpsert]_vars

-----------------------------------------------------------------------------
(* SpecBuild: one call of build_rows on every modelled upstream answer *)

BuildInstants ==
    { DayStart(BuildDay), DayStart(BuildDay) - 1,
      BuildNow + SKEW_HOURS, BuildNow + SKEW_HOURS + 1 }

BuildDts ==
    { Dt("absent", 0), Dt("empty", 0), Dt("number", 0), Dt("garbage", 0),
      Dt("naive", DayStart(BuildDay)) }
    \cup { Dt("aware", t) : t \in BuildInstants }

BuildReadings ==
    { Rd("absent", 0), Rd("num", 0), Rd("num", 50), Rd("numstr", 60),
      Rd("garbage", 0) }

BuildItems ==
    { Obs(dt, rd) : dt \in BuildDts, rd \in BuildReadings } \cup { NonObj }

BuildResponses ==
    { Failure("http_error"), Failure("timeout"), Failure("bad_json") }
    \cup { Json(Body(t, <<>>)) : t \in {"falsy", "scalar", "string", "object"} }
    \cup { Json(Body("list", items)) : items \in SeqsUpTo(BuildItems, MaxItems) }

InitBuild ==
    /\ loc \in { LOCATIONS[n] : n \in 1..Len(LOCATIONS) }
    /\ day = BuildDay
    /\ resp \in BuildResponses
    /\ now \in { BuildNow, BuildNow + 1 }
    /\ ret = Pending
    /\ pc = "build"
    /\ UpsertIdle
    /\ HealthIdle
    /\ FetchIdle
    /\ WalkIdle

CallBuildRows ==
    /\ ret.state = "pending"
    /\ ret' = build_rows(loc, day, resp, now)
    /\ UNCHANGED <<loc, day, resp, now, pc>>
    /\ UNCHANGED upsertVars
    /\ UNCHANGED healthVars
    /\ UNCHANGED fetchVars
    /\ UNCHANGED walkVars

NextBuild == CallBuildRows

SpecBuild == InitBuild /\ [][NextBuild]_vars

-----------------------------------------------------------------------------
(* Specification SpecIngest: one device-day from the fetch to the store, *)
(* build_rows and then upsert_rows on what it returned                     *)

\* main, lines 81-98, for one location: the rows build_rows returned are the
\* batch upsert_rows is called with.
WriteBuilt ==
    /\ pc = "build"
    /\ ret.state = "returned"
    /\ UpsertBegin(ret.rows)
    /\ UNCHANGED <<now>>
    /\ UNCHANGED buildVars
    /\ UNCHANGED healthVars
    /\ UNCHANGED fetchVars
    /\ UNCHANGED walkVars

NextIngest == CallBuildRows \/ WriteBuilt \/ UpsertStep

SpecIngest == InitBuild /\ [][NextIngest]_vars

-----------------------------------------------------------------------------
(* Claims about the backfill walker, checked under Spec *)

\* The upstream has answered every question so far with no observation.
UpstreamAllEmpty ==
    \A k \in DOMAIN upstream :
        upstream[k] \in { Json(Body("list", <<>>)), Json(Body("object", <<>>)) }

RangeDays == end_date - start_date + 1

\* C1 (as stated): when the upstream returns zero rows for every device on
\* every day, the walker processes exactly empty_chunks_to_stop day iterations
\* and then stops, never fewer and never a further day.
C1_ExactlyThresholdIterations ==
    (pc = "done" /\ UpstreamAllEmpty) => days_processed = empty_chunks_to_stop

\* C1 (amended): when the upstream returns zero rows for every device on every
\* day, the walker never processes more than min(empty_chunks_to_stop, days from
\* the earliest date to yesterday) day iterations, and has processed exactly
\* that many when it stops.
C1_EmptyStreakStop ==
    UpstreamAllEmpty =>
        /\ days_processed <= Min(empty_chunks_to_stop, RangeDays)
        /\ pc = "done" => days_processed = Min(empty_chunks_to_stop, RangeDays)

\* The streak, not the earliest date, has stopped a walk over empty days.
C1_Witness ==
    /\ pc = "done"
    /\ run = 1
    /\ UpstreamAllEmpty
    /\ DOMAIN upstream # {}
    /\ empty_chunks_to_stop < RangeDays
    /\ days_processed = empty_chunks_to_stop
    /\ current_date > start_date

\* The keys of a store and the value under each.
KeyValues(st) == { <<DeviceInstant(r), r.reading_value>> : r \in st }
Keys(st) == { DeviceInstant(r) : r \in st }

SameAsFirstRun ==
    /\ Keys(store) = Keys(first.store)
    /\ KeyValues(store) = KeyValues(first.store)
    /\ total_affected = first.total_affected

-----------------------------------------------------------------------------
(* Claims about one run of the walker, checked under SpecWalk *)

DEFAULT_MAX_YEARS == 5      \* "BACKFILL_MAX_YEARS ... (default 5)"

\* The documented horizon: BACKFILL_MAX_YEARS years of 365 days before the
\* day the walk starts from.
HorizonBoundary ==
    end_date - 365 * (IF env.BACKFILL_MAX_YEARS = None THEN DEFAULT_MAX_YEARS
                      ELSE CHOOSE n \in env.BACKFILL_MAX_YEARS : TRUE)

VisitedDays == { visited[n] : n \in 1..Len(visited) }

\* C11: the walker never fetches or writes a day older than the maximum
\* lookback boundary, BACKFILL_MAX_YEARS years back (default 5), whatever the
\* value configured.
C11_MaxLookbackHorizon ==
    /\ \A d \in VisitedDays : d >= HorizonBoundary
    /\ \A k \in DOMAIN upstream : k[2] >= HorizonBoundary

\* The walk so far: yesterday, the day before, and so on, no day below the
\* earliest date and none twice.
WalkInOrder ==
    /\ Len(visited) = days_processed
    /\ \A n \in 1..Len(visited) : visited[n] = end_date - (n - 1)
    /\ \A n \in 1..Len(visited) : visited[n] >= start_date
    /\ \A k \in DOMAIN upstream : k[2] >= start_date
    /\ Len(visited) <= RangeDays

\* The run has ended without the empty streak reaching the threshold.
EndedByDate == pc = "done" /\ empty_streak < empty_chunks_to_stop

\* C12: the walker never processes a day earlier than 2025-05-01; in a run
\* the empty-streak stop does not end it processes every day from yesterday
\* down to 2025-05-01, each exactly once; every run terminates, after at most
\* (yesterday - earliest + 1) day iterations.
C12_CompletionAtEarliestDate ==
    /\ [](WalkInOrder /\ (EndedByDate => VisitedDays = start_date..end_date))
    /\ <>(pc \in {"done", "config_error"})

\* A run over more than one day that the earliest date has ended.
C12_Witness ==
    /\ EndedByDate
    /\ RangeDays > 1
    /\ Len(visited) = RangeDays
    /\ visited[Len(visited)] = start_date
    /\ current_date < start_date

-----------------------------------------------------------------------------
(* Claims about an interrupted run and its rerun, checked under SpecResume *)

\* What the interrupted run had persisted is still there, and no key is held
\* twice.
PersistedRowsKept ==
    /\ { <<DeviceInstant(r), r.reading_value>> : r \in first.store }
           \subseteq { <<DeviceInstant(r), r.reading_value>> : r \in store }
    /\ Cardinality(store) = Cardinality({ DeviceInstant(r) : r \in store })

\* The store holds exactly what a run that is not interrupted writes: the
\* rows build_rows has given the rerun.
AsUninterrupted == { <<DeviceInstant(r), r.reading_value>> : r \in store } = built

-----------------------------------------------------------------------------
(* Claims about the day's bookkeeping, checked under SpecWalk *)

\* upsert_rows has returned and main takes the day's decision.
DayDecided == pc = "returned" /\ pc' # "returned"

\* C14: when upsert_rows returns 0 for a day whose combined batch is not
\* empty, the walker does not handle the day as an empty day: the day does not
\* add to the empty streak.
C14_ZeroCountIsFailure ==
    [][(DayDecided /\ rows # <<>> /\ inserted = 0) => empty_streak' <= empty_streak]_vars

\* The upstream's answer holds observations.
HasData(r) == r.kind = "json" /\ r.body.t = "list" /\ Len(r.body.items) > 0

DataOn(d) ==
    \E l \in 1..Len(LOCATIONS) :
        <<l, d>> \in DOMAIN upstream /\ HasData(upstream[<<l, d>>])

\* The days whose decision has been taken.
CompletedDays ==
    IF pc \in {"fetch", "chunks", "returned"} THEN days_processed - 1
    ELSE days_processed

\* The upstream had data for every day decided so far and the store has
\* accepted no chunk.
Outage ==
    /\ \A n \in 1..CompletedDays : DataOn(visited[n])
    /\ store = {}

\* C15 (as stated): if every chunk write fails on every day while the upstream
\* returns data for every day, each day's affected-count is 0, the empty streak
\* grows by one per day, and the walker stops after exactly
\* empty_chunks_to_stop days.
C15_OutageStopsAtThreshold ==
    Outage =>
        /\ total_affected = 0
        /\ empty_streak = CompletedDays
        /\ pc = "done" => days_processed = empty_chunks_to_stop

\* C15 (amended): the same, the walker stopping after exactly
\* min(empty_chunks_to_stop, days from the earliest date to yesterday) days.
C15_OutageStopsLikeNoData ==
    Outage =>
        /\ total_affected = 0
        /\ empty_streak = CompletedDays
        /\ days_processed <= Min(empty_chunks_to_stop, RangeDays)
        /\ pc = "done" => days_processed = Min(empty_chunks_to_stop, RangeDays)

\* An outage over days with data that the streak has stopped.
C15_Witness ==
    /\ pc = "done"
    /\ Outage
    /\ failed
    /\ empty_chunks_to_stop < RangeDays
    /\ days_processed = empty_chunks_to_stop
    /\ empty_streak = empty_chunks_to_stop
    /\ current_date > start_date

\* C16: when SUPABASE_URL or SUPABASE_ANON_KEY is missing, the run ends
\* before any upstream fetch, any store write and any day iteration; the store
\* is left unchanged.
C16_ConfigErrorIsFatal ==
    (~env.SUPABASE_URL \/ ~env.SUPABASE_ANON_KEY) =>
        /\ pc \in {"init", "config_error"}
        /\ DOMAIN upstream = {}
        /\ tried = {}
        /\ store = {}
        /\ visited = <<>>
        /\ days_processed = 0

\* A run with the key missing has ended at startup.
C16_Witness ==
    /\ pc = "config_error"
    /\ env.SUPABASE_URL
    /\ ~env.SUPABASE_ANON_KEY
    /\ store = {}
    /\ DOMAIN upstream = {}

\* C19: when EMPTY_CHUNKS_TO_STOP is not set in the environment, the walker
\* stops after 2 consecutive empty days.
C19_DefaultThresholdIsTwo ==
    (env.EMPTY_CHUNKS_TO_STOP = None /\ pc # "init") => empty_chunks_to_stop = 2

\* C20: after every day iteration the empty streak is its previous value plus
\* one if the day's affected-count is 0, and 0 otherwise, in which case the day
\* is also counted as a day with data; a day on which a fetch or a chunk failed
\* but a row was persisted resets the streak.
C20_StreakUpdateRule ==
    [][DayDecided =>
          /\ inserted = 0 => /\ empty_streak' = empty_streak + 1
                             /\ days_with_data' = days_with_data
          /\ inserted # 0 => /\ empty_streak' = 0
                             /\ days_with_data' = days_with_data + 1
          /\ okChunks # {} => empty_streak' = 0]_vars

\* An empty day, then a day of which one chunk failed and one was written:
\* the streak of 1 is back to 0.
C20_Witness ==
    /\ pc = "done"
    /\ days_processed = 2
    /\ \A l \in 1..Len(LOCATIONS) : ~HasData(upstream[<<l, end_date>>])
    /\ okChunks # {}
    /\ tried # okChunks
    /\ empty_streak = 0
    /\ days_with_data = 1

-----------------------------------------------------------------------------
(* Claims about the order of a run's events, checked under SpecWalk *)

IsDecided(ev) == ev.e = "day"

\* The days this run has counted, most recent day first, each with the
\* number upsert_rows returned for it.
DaysDecided == SelectSeq(events, IsDecided)

\* The length of the run of zero-count days that ends the sequence s.
TrailingZeros(s) ==
    Cardinality({ n \in 1..Len(s) : \A k \in n..Len(s) : s[k].x = 0 })

\* The loop was left by its `break` (lines 110-112): current_date has not
\* gone below the earliest date.
StoppedByBreak == pc = "done" /\ current_date >= start_date

\* C21: the run stops for emptiness only when the most recent
\* empty_chunks_to_stop completed days all had a zero affected count; the
\* streak the stop test reads is the number of zero-count days in a row the
\* run has just counted, so a zero-count day followed by a day with data
\* does not stop a run whose threshold is 2 or more.
C21_StopOnlyOnConsecutiveEmpty ==
    /\ pc \in {"fetch", "chunks", "returned", "done"}
          => empty_streak = TrailingZeros(DaysDecided)
    /\ StoppedByBreak
          => /\ Len(DaysDecided) >= empty_chunks_to_stop
             /\ \A n \in 1..Len(DaysDecided) :
                    n > Len(DaysDecided) - empty_chunks_to_stop
                        => DaysDecided[n].x = 0

\* A threshold of 2, the most recent day without data and the day before it
\* with rows written: the run has gone on to that day and has ended at the
\* earliest date.
C21_Witness ==
    /\ pc = "done"
    /\ empty_chunks_to_stop >= 2
    /\ Len(DaysDecided) = 2
    /\ DaysDecided[1].x = 0
    /\ DaysDecided[2].x > 0
    /\ ~StoppedByBreak

IsFetch(ev) == ev.e = "fetch"

IsWrite(ev) == ev.e = "write"

\* The positions of `events` that hold an event of the day d.
EventsOf(d) == { k \in 1..Len(events) : events[k].d = d }

\* C22: a run processes its days strictly one after another. The first day
\* is yesterday in Singapore time, each next day is exactly one day earlier,
\* and a day's events are the fetch of every location in order, then one
\* write, then the day's count: the write follows all the fetches of its
\* day and precedes every fetch of the next day processed.
C22_StrictlySequentialDays ==
    /\ Len(visited) > 0
          => visited[1] = ((now + SGT_OFFSET) \div HOURS_PER_DAY) - 1
    /\ \A n \in 1..(Len(visited) - 1) : visited[n + 1] = visited[n] - 1
    /\ \A k \in 1..(Len(events) - 1) : events[k + 1].d <= events[k].d
    /\ \A k \in 1..Len(events) : \E n \in 1..Len(visited) : events[k].d = visited[n]
    /\ \A j, k \in 1..Len(events) :
          /\ (IsWrite(events[j]) /\ IsWrite(events[k])
                 /\ events[j].d = events[k].d) => j = k
          /\ (IsFetch(events[j]) /\ IsWrite(events[k])
                 /\ events[j].d = events[k].d) => j < k
          /\ (IsWrite(events[j]) /\ IsFetch(events[k])
                 /\ events[k].d < events[j].d) => j < k
          /\ (IsDecided(events[j]) /\ events[k].d < events[j].d) => j < k
    /\ \A k \in 1..Len(events) :
          IsWrite(events[k])
              => { events[j].x : j \in { n \in EventsOf(events[k].d) :
                                           n < k /\ IsFetch(events[n]) } }
                     = 1..Len(LOCATIONS)

\* A run over two days has ended: two writes, four fetches.
C22_Witness ==
    /\ pc = "done"
    /\ Len(visited) = 2
    /\ Len(SelectSeq(events, IsWrite)) = 2
    /\ Len(SelectSeq(events, IsFetch)) = 2 * Len(LOCATIONS)

\* What build_rows gives for the location of index l and the day d.
BuiltFor(l, d) == build_rows(LOCATIONS[l], d, upstream[<<l, d>>], now)

\* The rows of the locations 1..n for the day d, in the order of LOCATIONS.
RECURSIVE BatchUpTo(_, _)
BatchUpTo(n, d) ==
    IF n = 0 THEN <<>> ELSE BatchUpTo(n - 1, d) \o BuiltFor(n, d).rows

\* upsert_rows is entered for the day.
WriterCalled == pc = "fetch" /\ pc' \in {"chunks", "returned"}

\* C23: within a day the fetch of every location is attempted whatever the
\* other fetches did; a location whose fetch raised gives no row to the
\* day's batch, the rows of the other locations are all in it, in the order
\* of the locations, and upsert_rows is called once for the day, with that
\* batch.
C23_PerDeviceIsolation ==
    /\ [](\A k \in 1..Len(events) :
            IsDecided(events[k])
                => /\ Cardinality({ j \in EventsOf(events[k].d) :
                                      IsWrite(events[j]) }) = 1
                   /\ \A l \in 1..Len(LOCATIONS) :
                         Cardinality({ j \in EventsOf(events[k].d) :
                                         events[j] = Fetched(l, events[k].d) }) = 1)
    /\ [][WriterCalled =>
            /\ \A l \in 1..Len(LOCATIONS) : <<l, current_date>> \in DOMAIN upstream
            /\ rows' = BatchUpTo(Len(LOCATIONS), current_date)
            /\ \A l \in 1..Len(LOCATIONS) :
                  BuiltFor(l, current_date).state = "raised"
                      => \A n \in 1..Len(rows') :
                            rows'[n].location_id # LOCATIONS[l].ID
            /\ events' = Append(events, Wrote(current_date, Len(rows')))]_vars

\* The fetch of the first location has raised, the second location's rows
\* are the batch upsert_rows has been called with.
C23_Witness ==
    /\ pc \in {"chunks", "returned"}
    /\ BuiltFor(1, current_date).state = "raised"
    /\ HasData(upstream[<<2, current_date>>])
    /\ rows # <<>>
    /\ \A n \in 1..Len(rows) : rows[n].location_id = LOCATIONS[2].ID

\* The sum of the counts of a sequence of counted days.
RECURSIVE SumCounts(_)
SumCounts(s) == IF s = <<>> THEN 0 ELSE Head(s).x + SumCounts(Tail(s))

ZeroDays(s) == { n \in 1..Len(s) : s[n].x = 0 }

\* C27: in every state of a run 0 <= empty_streak <= empty_chunks_to_stop
\* and days_with_data + empty_streak <= days_processed; total_affected is
\* the sum of the counts upsert_rows returned for the days counted so far;
\* days_with_data is the number of those days with a count above zero, so
\* that at the end of the run days_processed - days_with_data is the number
\* of days processed with a zero count.
C27_CountersConsistent ==
    /\ 0 <= empty_streak
    /\ pc # "init" => empty_streak <= empty_chunks_to_stop
    /\ days_with_data + empty_streak <= days_processed
    /\ pc \in {"fetch", "chunks", "returned", "done"}
          => /\ total_affected = SumCounts(DaysDecided)
             /\ days_with_data = Len(DaysDecided) - Cardinality(ZeroDays(DaysDecided))
             /\ Len(DaysDecided) = CompletedDays
    /\ pc = "done"
          => days_processed - days_with_data = Cardinality(ZeroDays(DaysDecided))

\* A run of two days has ended: rows written for the first, none for the
\* second.
C27_Witness ==
    /\ pc = "done"
    /\ Len(DaysDecided) = 2
    /\ DaysDecided[1].x > 0
    /\ DaysDecided[2].x = 0
    /\ total_affected = DaysDecided[1].x
    /\ days_processed = 2
    /\ days_with_data = 1
    /\ empty_streak = 1

\* The lower bound of the `Date range covered` line of the final summary:
\* `current_date + timedelta(days=1)` (line 135); its upper bound is end_date.
ReportedFrom == current_date + 1

\* C28 (as stated): at the end of every run, ended by the empty-streak stop
\* or by reaching the earliest date, the lower bound of the reported date
\* range is the earliest day the run has processed and the number of days of
\* the reported range equals days_processed.
C28_ReportedCoverageMatches ==
    (pc = "done" /\ Len(visited) > 0)
        => /\ ReportedFrom = visited[Len(visited)]
           /\ \A n \in 1..Len(visited) : ReportedFrom <= visited[n]
           /\ end_date - ReportedFrom + 1 = days_processed

-----------------------------------------------------------------------------
(* Claims about build_rows, checked under SpecBuild *)

Called == ret.state # "pending"

IsList == resp.kind = "json" /\ resp.body.t = "list"

\* An observation object whose dt parses to an absolute instant.
HasInstant(item) == item.t = "obs" /\ item.dt.k = "aware"

\* ... and whose instant is at most one hour ahead of the clock.
Usable(item) == HasInstant(item) /\ item.dt.t <= now + SKEW_HOURS

UsableItems == IF IsList THEN SelectSeq(resp.body.items, Usable) ELSE <<>>

\* Every usable observation of the response is a row of the result, in order.
AllUsableEmitted ==
    /\ Len(ret.rows) = Len(UsableItems)
    /\ \A n \in 1..Len(UsableItems) :
          /\ ret.rows[n].reading_datetime = UsableItems[n].dt.t
          /\ ret.rows[n].location_id = loc.ID

\* C5 (as claimed): build_rows never emits a row whose instant is more than
\* one hour after the current time, and every observation whose timestamp
\* parses to an instant at most one hour ahead of now is emitted.
C5_ClockSkewGuard ==
    Called =>
        /\ \A n \in 1..Len(ret.rows) :
              ret.rows[n].reading_datetime <= now + SKEW_HOURS
        /\ AllUsableEmitted

\* The guard itself: whenever build_rows returns, its rows are exactly the
\* usable observations, so nothing later than now + 1 h is emitted and an
\* observation exactly one hour ahead is kept.
C5_GuardWhenReturned ==
    ret.state = "returned" =>
        /\ \A n \in 1..Len(ret.rows) :
              ret.rows[n].reading_datetime <= now + SKEW_HOURS
        /\ AllUsableEmitted

\* C8 (as claimed): whatever the upstream request for one device-day
\* produces, build_rows returns a sequence and raises nothing.
C8_FetchNeverEscapes == ret.state # "raised"

\* What does hold: an HTTP error, a timeout, a non-JSON body and a falsy
\* JSON body all give an empty sequence.
C8_FailuresGiveEmpty ==
    (Called /\ (resp.kind # "json" \/ resp.body.t = "falsy")) =>
        ret = Returned(<<>>)

\* A response that is a list of observation objects only.
OnlyObservations ==
    IsList /\ \A n \in 1..Len(resp.body.items) : resp.body.items[n].t = "obs"

\* C9 (as claimed): for a response of observation objects, an observation
\* whose timestamp is missing, unparseable or not timezone-qualified is
\* dropped and every observation with a valid, not-future timestamp is still
\* emitted; build_rows does not abort.
C9_BadTimestampCostsOnlyItself ==
    (Called /\ OnlyObservations) =>
        /\ ret.state = "returned"
        /\ AllUsableEmitted

\* The part of C9 the code keeps: a missing, empty, non-string or
\* unparseable dt drops its own observation only.
NoNaive ==
    \A n \in 1..Len(resp.body.items) : resp.body.items[n].dt.k # "naive"

C9_RejectedTimestampsOnly ==
    (Called /\ OnlyObservations /\ NoNaive) =>
        /\ ret.state = "returned"
        /\ AllUsableEmitted

\* C10 (as claimed): an observation with a valid timestamp and a reading
\* that is null or cannot be parsed as a number is emitted as a row whose
\* value is absent; the row is not dropped, the value is not zero and no
\* error is raised.
C10_UnparseableReadingIsAbsent ==
    Called =>
        \A n \in 1..Len(UsableItems) :
            UsableItems[n].reading.k \in {"garbage", "absent"} =>
                /\ ret.state = "returned"
                /\ Len(ret.rows) >= n
                /\ ret.rows[n].reading_datetime = UsableItems[n].dt.t
                /\ ret.rows[n].reading_value = None
                /\ ret.rows[n].reading_value # Some(0)

\* The conversion itself: whenever build_rows returns, the row of such an
\* observation is there and carries no value.
C10_AbsentWhenReturned ==
    ret.state = "returned" =>
        \A n \in 1..Len(UsableItems) :
            UsableItems[n].reading.k \in {"garbage", "absent"} =>
                /\ Len(ret.rows) >= n
                /\ ret.rows[n].reading_datetime = UsableItems[n].dt.t
                /\ ret.rows[n].reading_value = None

\* C25 (as stated): every row build_rows(loc, day) returns carries the
\* location's id and an instant of that calendar day in Singapore time; an
\* observation the upstream returns for another day is not emitted.
C25_RowsInsideDeviceDay ==
    ret.state = "returned" =>
        \A n \in 1..Len(ret.rows) :
            /\ ret.rows[n].location_id = loc.ID
            /\ ret.rows[n].reading_datetime >= DayStart(day)
            /\ ret.rows[n].reading_datetime < DayStart(day + 1)

-----------------------------------------------------------------------------
(* Claims about one device-day's path to the store, checked under SpecIngest *)

\* C26 (as stated): every chunk upsert_rows submits to the store holds at
\* most one row per (location_id, reading_datetime), also when the upstream's
\* answer for the device-day repeats an observation for the same instant.
C26_NoDuplicateKeyInChunk ==
    \A k \in tried :
        LET chunk == Chunk(rows, k)
        IN  \A a, b \in 1..Len(chunk) :
                <<chunk[a].location_id, chunk[a].reading_datetime>>
                    = <<chunk[b].location_id, chunk[b].reading_datetime>>
                    => a = b

-----------------------------------------------------------------------------
(* Claims about upsert_rows and the store, checked under SpecUpsert *)

RowsAt(st, k) == { x \in st : DeviceInstant(x) = k }

\* C3: after any sequence of writes the store holds at most one row per
\* (device_id, instant), and the row's value is the value of the most recent
\* successful write for that key.
C3_UpsertMergeSemantics ==
    /\ \A x \in store : Cardinality(RowsAt(store, DeviceInstant(x))) = 1
    /\ \A x \in store :
          /\ DeviceInstant(x) \in DOMAIN written
          /\ x.reading_value = written[DeviceInstant(x)]
    /\ \A k \in DOMAIN written : RowsAt(store, k) # {}

\* A key written with one value and then with another: one row, value 60.
C3_Witness ==
    \E x \in store :
        /\ DeviceInstant(x) \in replaced
        /\ x.reading_value = Some(60)
        /\ RowsAt(store, DeviceInstant(x)) = {x}

RECURSIVE SumSizes(_, _)
SumSizes(rs, offsets) ==
    IF offsets = {} THEN 0
    ELSE LET k == CHOOSE o \in offsets : TRUE
         IN  Len(Chunk(rs, k)) + SumSizes(rs, offsets \ {k})

\* Positions of the batch that lie in an accepted chunk.
OkPositions == { n \in 1..Len(rows) : (n - 1) - ((n - 1) % CHUNK) \in okChunks }

\* C4: whichever chunks of a batch fail, every chunk is submitted, every
\* accepted chunk is persisted (a row is in the store as written unless a
\* later accepted row of the batch has its key), and the returned count is
\* the sum of the sizes of the accepted chunks: more than zero when a chunk
\* was accepted, less than the batch size when a chunk failed.
C4_PartialBatchResilience ==
    pc = "returned" =>
        /\ tried = ChunkOffsets(rows)
        /\ inserted = SumSizes(rows, okChunks)
        /\ \A n \in OkPositions :
              \/ rows[n] \in store
              \/ \E m \in OkPositions :
                    /\ m > n
                    /\ DeviceInstant(rows[m]) = DeviceInstant(rows[n])
                    /\ RowsAt(store, DeviceInstant(rows[n])) # {}
        /\ (okChunks # {} => inserted > 0)
        /\ (okChunks # tried => inserted < Len(rows))

\* Chunk 2 of 3 failed, chunks 1 and 3 were accepted.
C4_Witness ==
    /\ pc = "returned"
    /\ tried = {0, CHUNK, 2 * CHUNK}
    /\ okChunks = {0, 2 * CHUNK}
    /\ inserted = Len(rows) - CHUNK
    /\ rows[Len(rows)] \in store

-----------------------------------------------------------------------------
(* Claims about the health classifier *)

\* The valid counts of the days of the selected range, summed.
WindowTotal == SumValid(df_all, { d \in DOMAIN df_all : d >= win.start_date /\ d <= win.end_date })

WindowDays == win.end_date - win.start_date + 1

\* C6 (SpecSingle): with 1440 readings per day and thresholds 0.70 and 0.30,
\* the single-day status of a day with c observed readings, 0 <= c <= 1440,
\* is ONLINE iff c >= 1008, DEGRADED iff 432 <= c < 1008, OFFLINE iff
\* c < 432.
C6_SingleDayClassification ==
    health.mode = "single" =>
        LET c == df_all[win.start_date].valid
            status == health.rec.status
        IN  /\ health.rec.reading_count = c
            /\ (status = "ONLINE") <=> (c >= 1008)
            /\ (status = "DEGRADED") <=> (432 <= c /\ c < 1008)
            /\ (status = "OFFLINE") <=> (c < 432)

\* 432 readings, exactly 30%: DEGRADED.
C6_Witness ==
    /\ health.mode = "single"
    /\ health.rec.reading_count = 432
    /\ health.rec.status = "DEGRADED"

\* C7 (SpecHealth): over a range of N days the status is ONLINE iff the
\* total observed count is at least 70% of 1440 * N, DEGRADED iff it is at
\* least 40% and below 70%, OFFLINE otherwise, whatever the number of online
\* days: the status is a function of N and the total alone, and days of
\* 1, 0 and 1440 readings give 2 online days of 3 and OFFLINE.
C7_AggregateRatioDecides ==
    health.mode = "range" =>
        LET total == WindowTotal
            expected == 1440 * WindowDays
            status == health.rec.status
        IN  /\ health.rec.total_readings = total
            /\ health.rec.expected_readings = expected
            /\ (status = "ONLINE") <=> (total * 10 >= 7 * expected)
            /\ (status = "DEGRADED") <=>
                   (total * 10 >= 4 * expected /\ total * 10 < 7 * expected)
            /\ (status = "OFFLINE") <=> (total * 10 < 4 * expected)
            /\ (WindowDays = 3 /\ total = 1441 /\ health.rec.online_days = 2)
                   => status = "OFFLINE"

\* Days of 1, 0 and 1440 readings: 2 online days of 3, 1441 of 4320, OFFLINE.
C7_Witness ==
    /\ health.mode = "range"
    /\ win = [start_date |-> 0, end_date |-> 2]
    /\ df_all[0] = DayRows(1)
    /\ df_all[1].valid = 0
    /\ df_all[2] = DayRows(1440)
    /\ health.rec.online_days = 2
    /\ health.rec.total_days = 3
    /\ health.rec.status = "OFFLINE"

\* The frame with the rows of day d replaced.
WithDay(df, d, shape) == [x \in DOMAIN df |-> IF x = d THEN shape ELSE df[x]]

Filtered == FilterFrame(df_all, win.start_date, win.end_date)

\* C17 (SpecHealth): in both modes the health record computed from an input
\* in which a day of the window has no rows at all equals the one computed from
\* an input in which the day has rows but none with a value for the device:
\* count 0, completeness 0 and OFFLINE for a single day, the same record with
\* the day among the offline dates for a range.
C17_AbsentDayEqualsEmptyDay ==
    \A d \in win.start_date..win.end_date :
        df_all[d].valid = 0 =>
            /\ health.mode = "single" =>
                  /\ health.rec = get_sensor_health_single_date(
                                      WithDay(Filtered, d, NoRows), d)
                  /\ health.rec = get_sensor_health_single_date(
                                      WithDay(Filtered, d, DayRows(0)), d)
                  /\ health.rec = [reading_count |-> 0,
                                   completeness |-> Pct(0, READINGS_PER_DAY),
                                   status |-> "OFFLINE"]
            /\ health.mode = "range" =>
                  /\ health.rec = get_sensor_health_date_range(
                                      WithDay(Filtered, d, NoRows),
                                      win.start_date, win.end_date)
                  /\ health.rec = get_sensor_health_date_range(
                                      WithDay(Filtered, d, DayRows(0)),
                                      win.start_date, win.end_date)
                  /\ \E n \in DOMAIN health.rec.offline_dates :
                         health.rec.offline_dates[n] = d

\* A range with an absent day, a day of rows without a value and a full day.
C17_Witness ==
    /\ health.mode = "range"
    /\ win = [start_date |-> 0, end_date |-> 2]
    /\ df_all[0] = NoRows
    /\ df_all[1] = DayRows(0)
    /\ df_all[2] = DayRows(READINGS_PER_DAY)
    /\ health.rec.offline_dates = <<0, 1>>
    /\ health.rec.online_days = 1

\* The elements of a sequence.
Elems(s) == { s[n] : n \in 1..Len(s) }

\* The days of the window on which the location has a reading.
DaysWithReading == { d \in win.start_date..win.end_date : df_all[d].valid > 0 }

\* C24 (SpecHealth): in the range record of a window of N days every day
\* of the window is either counted in online_days or listed once in
\* offline_dates, so that online_days + len(offline_dates) = N; no day is in
\* both offline_dates and degraded_dates, and every day of degraded_dates is
\* one of the days counted as online.
C24_PerDayBreakdownConsistent ==
    health.mode = "range" =>
        LET rec == health.rec
            window == win.start_date..win.end_date
        IN  /\ rec.total_days = WindowDays
            /\ rec.online_days + Len(rec.offline_dates) = WindowDays
            /\ rec.online_days = Cardinality(DaysWithReading)
            /\ Elems(rec.offline_dates) = window \ DaysWithReading
            /\ Len(rec.offline_dates) = Cardinality(Elems(rec.offline_dates))
            /\ Len(rec.degraded_dates) = Cardinality(Elems(rec.degraded_dates))
            /\ Elems(rec.offline_dates) \cap Elems(rec.degraded_dates) = {}
            /\ Elems(rec.degraded_dates) \subseteq DaysWithReading

\* An absent day, a day of one reading and a full day: one offline date, one
\* degraded date, two online days.
C24_Witness ==
    /\ health.mode = "range"
    /\ win = [start_date |-> 0, end_date |-> 2]
    /\ df_all[0] = NoRows
    /\ df_all[1] = DayRows(1)
    /\ df_all[2] = DayRows(READINGS_PER_DAY)
    /\ health.rec.online_days = 2
    /\ health.rec.offline_dates = <<0>>
    /\ health.rec.degraded_dates = <<1>>

\* C30 (as stated): in the range record a day of the window is listed in
\* degraded_dates exactly when the single-day computation, applied to that
\* day with the same rows, gives DEGRADED, that is when the day's count is at
\* least 30% and below 70% of 1440.
C30_DegradedListAgreesWithSingleDay ==
    health.mode = "range" =>
        \A d \in win.start_date..win.end_date :
            /\ (d \in Elems(health.rec.degraded_dates))
                   <=> (get_sensor_health_single_date(Filtered, d).status = "DEGRADED")
            /\ (d \in Elems(health.rec.degraded_dates))
                   <=> (df_all[d].valid * 100 >= 30 * READINGS_PER_DAY
                        /\ df_all[d].valid * 100 < 70 * READINGS_PER_DAY)

-----------------------------------------------------------------------------
(* Claims about fetch_all_data, checked under SpecFetch *)

Matching == { r \in view : Matches(r, args) }

\* The returned frame holds every matching row once and nothing else.
FrameComplete ==
    /\ { frame[n] : n \in 1..Len(frame) } = Matching
    /\ Len(frame) = Cardinality(Matching)

====
